---------------------------- MODULE Spec2Model ----------------------------
(***************************************************************************)
(* ChipPort: a single-threaded HTTP server (src/main.cpp).                 *)
(* src/net.cpp is an earlier version of the same server: its HttpRequest   *)
(* constructor and the loop of its run() are those of src/main.cpp, with   *)
(* three fixed answers in place of RequestHandler.                         *)
(*                                                                         *)
(* A std::string is a TLA+ string in which every character stands for one  *)
(* byte (a byte above 0x7F is written as its Latin-1 character, so the     *)
(* UTF-8 text "cafe" with an acute e is the five bytes c a f C3 A9).       *)
(* String positions are 1-based here and 0-based in the source; NPOS (0)   *)
(* stands for std::string::npos.                                           *)
(***************************************************************************)
EXTENDS Integers, Sequences, FiniteSets, TLC

VARIABLES
    pc,             \* position of HttpServer::run in its loop body
    client_socket,  \* HttpServer::client_socket
    conn,           \* the accepted connection: "none", "open" or "closed"
    buffer,         \* char buffer[] of run(), declared outside the loop
    request,        \* Request request(buffer)
    response,       \* Response response
    httpResponse,   \* std::string httpResponse
    routeLookUp,    \* RequestHandler::routeLookUp
    fs,             \* the files the routes name: the environment
    rd,             \* history: the bytes read() stored for this connection
    fileSeen,       \* history: the routed file as it was when handleRequest ran
    sent,           \* history: what write() sent on this connection
    steps,          \* history: the steps run() took for this connection
    stale,          \* history: the buffer held more bytes than read() stored
    probe           \* a function under test with its argument and result

vars == <<pc, client_socket, conn, buffer, request, response, httpResponse,
          routeLookUp, fs, rd, fileSeen, sent, steps, stale, probe>>

----------------------------------------------------------------------------
(* Bounds *)

\* Size of run()'s buffer.  The source declares char buffer[3000]; the
\* model keeps the same code with a shorter array so that a state is small.
BufSize == 48

\* Longest generated file name handed to getContentType.
MaxNameLen == 4

\* Most bytes a short write() sends before it returns.
MaxShortWrite == 2

----------------------------------------------------------------------------
(* std::string *)

NPOS == 0

At(s, i) == SubSeq(s, i, i)

Min(a, b) == IF a < b THEN a ELSE b

\* size_t arithmetic wraps; TLC's integers have 32 bits, so the modulus is
\* 2^30 instead of 2^64: both exceed every string length that occurs.
SizeModulus == 2^30

SizeT(n) == n % SizeModulus

\* s.find(ch, from): the first position >= from holding ch, or NPOS.
RECURSIVE find(_, _, _)
find(s, ch, from) ==
    IF from > Len(s) THEN NPOS
    ELSE IF At(s, from) = ch THEN from
    ELSE find(s, ch, from + 1)

\* The first position of s holding ch: the result of find where the source
\* calls find_last_of (used to mutate find_last_of).
find_first_of_dot(s, ch, from) == find(s, ch, 1)

\* s.find_last_of(ch): the last position <= from holding ch, or NPOS.
RECURSIVE find_last_of(_, _, _)
find_last_of(s, ch, from) ==
    IF from < 1 THEN NPOS
    ELSE IF At(s, from) = ch THEN from
    ELSE find_last_of(s, ch, from - 1)

\* s.substr(pos0, count) with the source's 0-based pos0: throws
\* std::out_of_range when pos0 > size(), else the characters
\* [pos0, pos0 + min(count, size() - pos0)).
substr(s, pos0, count) ==
    IF pos0 > Len(s)
    THEN [threw |-> TRUE, str |-> ""]
    ELSE [threw |-> FALSE,
          str   |-> SubSeq(s, pos0 + 1, pos0 + Min(count, Len(s) - pos0))]

\* The vertical tab, byte 0x0B (TLA+ has no escape for it: the literal
\* holds the byte itself).
VT == ""

\* isspace in the "C" locale: space, \t, \n, \v, \f, \r.
IsSpace(c) == c \in {" ", "\t", "\n", VT, "\f", "\r"}

\* std::getline(stream, line): stream is the text and the read position.
\* Fails when nothing is left; else takes the characters up to the next
\* line feed, which it consumes, or up to the end.
getline(text, pos) ==
    IF pos > Len(text)
    THEN [ok |-> FALSE, line |-> "", next |-> pos]
    ELSE LET nl == find(text, "\n", pos)
         IN IF nl = NPOS
            THEN [ok |-> TRUE, line |-> SubSeq(text, pos, Len(text)),
                  next |-> Len(text) + 1]
            ELSE [ok |-> TRUE, line |-> SubSeq(text, pos, nl - 1),
                  next |-> nl + 1]

RECURSIVE SkipSpace(_, _)
SkipSpace(s, pos) ==
    IF pos <= Len(s) /\ IsSpace(At(s, pos)) THEN SkipSpace(s, pos + 1) ELSE pos

RECURSIVE WordEnd(_, _)
WordEnd(s, pos) ==
    IF pos <= Len(s) /\ ~IsSpace(At(s, pos)) THEN WordEnd(s, pos + 1) ELSE pos

\* stream >> word: skips white space, then takes the characters up to the
\* next white space; at the end of the stream it fails and leaves the
\* (empty) target string as it was.
Extract(s, pos) ==
    LET b == SkipSpace(s, pos)
        e == WordEnd(s, b)
    IN [word |-> SubSeq(s, b, e - 1), next |-> e]

----------------------------------------------------------------------------
(* struct Request *)

EmptyHeaders == [n \in {} |-> ""]

\* headers[headerName] = headerValue
PutHeader(headers, name, value) ==
    [n \in DOMAIN headers \cup {name} |->
        IF n = name THEN value ELSE headers[n]]

\* The header loop of the constructor, from read position pos on.
RECURSIVE ParseHeaders(_, _, _)
ParseHeaders(text, pos, headers) ==
    LET g == getline(text, pos)
    IN IF ~g.ok \/ g.line = "\r"
       THEN [threw |-> FALSE, headers |-> headers, next |-> g.next]
       ELSE LET line     == g.line
                colonPos == find(line, ":", 1) - 1     \* 0-based, as in the source
            IN IF colonPos + 1 = NPOS
               THEN ParseHeaders(text, g.next, headers)
               ELSE LET headerName  == substr(line, 0, colonPos).str
                        headerValue == substr(line, colonPos + 2,
                                              SizeT(Len(line) - colonPos - 3))
                    IN IF headerValue.threw
                       THEN [threw |-> TRUE, headers |-> headers, next |-> g.next]
                       ELSE ParseHeaders(text, g.next,
                                PutHeader(headers, headerName, headerValue.str))

\* The body loop of the constructor: every remaining line, a line feed
\* appended to each.
RECURSIVE ReadBody(_, _)
ReadBody(text, pos) ==
    LET g == getline(text, pos)
    IN IF ~g.ok THEN "" ELSE g.line \o "\n" \o ReadBody(text, g.next)

\* Request::Request(requestText).  threw: std::out_of_range left the
\* constructor (no Request exists then).
Request(requestText) ==
    LET first       == getline(requestText, 1)
        w1          == Extract(first.line, 1)
        w2          == Extract(first.line, w1.next)
        w3          == Extract(first.line, w2.next)
        hdr         == ParseHeaders(requestText, first.next, EmptyHeaders)
    IN [threw       |-> hdr.threw,
        method      |-> w1.word,
        path        |-> w2.word,
        httpVersion |-> w3.word,
        headers     |-> hdr.headers,
        body        |-> IF hdr.threw THEN "" ELSE ReadBody(requestText, hdr.next)]

----------------------------------------------------------------------------
(* getContentType *)

extensionToContentType ==
    [e \in {".html", ".jpg", ".jpeg", ".png", ".css", ".js"} |->
        CASE e = ".html" -> "text/html"
          [] e = ".jpg"  -> "image/jpeg"
          [] e = ".jpeg" -> "image/jpeg"
          [] e = ".png"  -> "image/png"
          [] e = ".css"  -> "text/css"
          [] e = ".js"   -> "application/javascript"]

getContentType(filename) ==
    LET dotPosition == find_last_of(filename, ".", Len(filename))
    IN IF dotPosition # NPOS
       THEN LET extension == SubSeq(filename, dotPosition, Len(filename))
            IN IF extension \in DOMAIN extensionToContentType
               THEN extensionToContentType[extension]
               ELSE "application/octet-stream"
       ELSE "application/octet-stream"

----------------------------------------------------------------------------
(* struct Response *)

STATUS_SUCCESS == 200
STATUS_NOT_FOUND == 404
STATUS_METHOD_NOT_ALLOWED == 405

Digit(d) == At("0123456789", d + 1)

\* operator<< of a non-negative integer: its decimal digits.
RECURSIVE ToDecimal(_)
ToDecimal(n) ==
    IF n < 10 THEN Digit(n) ELSE ToDecimal(n \div 10) \o Digit(n % 10)

\* A reason phrase table that forgets 404 (used to mutate ReasonPhrase).
ReasonPhraseNo404(code) ==
    IF code = STATUS_SUCCESS THEN "OK" ELSE "Method Not Allowed"

\* The conditional expression of buildResponse.
ReasonPhrase(code) ==
    IF code = STATUS_SUCCESS THEN "OK"
    ELSE IF code = STATUS_NOT_FOUND THEN "Not Found"
    ELSE "Method Not Allowed"

\* A two-byte UTF-8 sequence: one character, two bytes.
TwoByteChar == "Ã©"

\* The number of characters of a body in which TwoByteChar may occur: a
\* length in characters where the source takes bytes (used to mutate
\* length).
RECURSIVE lengthInCharacters(_)
lengthInCharacters(s) ==
    IF s = "" THEN 0
    ELSE IF Len(s) >= Len(TwoByteChar) /\ SubSeq(s, 1, Len(TwoByteChar)) = TwoByteChar
         THEN 1 + lengthInCharacters(SubSeq(s, Len(TwoByteChar) + 1, Len(s)))
         ELSE 1 + lengthInCharacters(Tail(s))

\* body.length(): the number of bytes.
length(s) == Len(s)

buildResponse(r) ==
    "HTTP/1.1 " \o ToDecimal(r.code) \o " " \o ReasonPhrase(r.code) \o "\n"
    \o "Content-Type: " \o r.contentType \o "\n"
    \o "Content-Length: " \o ToDecimal(length(r.body)) \o "\n\n"
    \o r.body

----------------------------------------------------------------------------
(* struct RouteEntry, class RequestHandler *)

RouteEntry(allowedMethods, content, isFile) ==
    [allowedMethods |-> allowedMethods, content |-> content, isFile |-> isFile]

\* RequestHandler::RequestHandler(): the table after construction.
InitialRoutes ==
    ("/"                :> RouteEntry(<<"GET">>, "./templates/index.html", TRUE))
    @@ ("/test/get"      :> RouteEntry(<<"GET">>, "./templates/test.html", TRUE))
    @@ ("/test/post"     :> RouteEntry(<<"POST">>, "./templates/test.html", TRUE))
    @@ ("/test/put"      :> RouteEntry(<<"PUT">>, "./templates/test.html", TRUE))
    @@ ("/test/post-get" :> RouteEntry(<<"GET", "POST">>, "./templates/test.html", TRUE))
    @@ ("/favicon.ico"   :> RouteEntry(<<"GET">>, "./static/img/favicon.jpg", TRUE))

Files == {"./templates/index.html", "./templates/test.html",
          "./static/img/favicon.jpg"}

\* A file of the environment: whether it can be opened, and its bytes.
FileState(exists, data) == [exists |-> exists, data |-> data]

NoFile == FileState(FALSE, "")

\* A lookup that drops a query string and a trailing slash before it
\* searches (used to mutate routeFind).
routeFindNormalised(table, path) ==
    LET q        == find(path, "?", 1)
        noQuery  == IF q = NPOS THEN path ELSE SubSeq(path, 1, q - 1)
        stripped == IF Len(noQuery) > 1 /\ At(noQuery, Len(noQuery)) = "/"
                    THEN SubSeq(noQuery, 1, Len(noQuery) - 1)
                    ELSE noQuery
    IN IF stripped \in DOMAIN table
       THEN [found |-> TRUE, second |-> table[stripped]]
       ELSE [found |-> FALSE, second |-> RouteEntry(<<>>, "", FALSE)]

\* routeLookUp.find(request.path): found is route != routeLookUp.end().
routeFind(table, path) ==
    IF path \in DOMAIN table
    THEN [found |-> TRUE, second |-> table[path]]
    ELSE [found |-> FALSE, second |-> RouteEntry(<<>>, "", FALSE)]

\* The table after routeLookUp.find(request.path): find changes nothing,
\* and the entry is used through a const reference.
routeLookUpAfterFind(table, path) == table

\* std::find(allowedMethods.begin(), allowedMethods.end(), request.method)
\* != allowedMethods.end()
MethodAllowed(allowedMethods, method) ==
    \E i \in 1..Len(allowedMethods) : allowedMethods[i] = method

\* The methods from the last to the first (used to mutate AllowedText).
RECURSIVE AllowedTextReversed(_)
AllowedTextReversed(allowedMethods) ==
    IF allowedMethods = <<>> THEN ""
    ELSE AllowedTextReversed(Tail(allowedMethods)) \o Head(allowedMethods) \o " "

\* for (method : allowedMethods) allowed += method + " ";
RECURSIVE AllowedText(_)
AllowedText(allowedMethods) ==
    IF allowedMethods = <<>> THEN ""
    ELSE Head(allowedMethods) \o " " \o AllowedText(Tail(allowedMethods))

\* std::ifstream file(path); the test !file
ifstreamOpens(file) == file.exists

\* Only the first line of the file (used to mutate ReadAll).
ReadFirstLine(file) == getline(file.data, 1).line

\* std::string content(istreambuf_iterator(file), istreambuf_iterator())
ReadAll(file) == file.data

MakeResponse(code, body, contentType) ==
    [code |-> code, body |-> body, contentType |-> contentType]

\* RequestHandler::handleRequest(request) on the table and the files given.
handleRequest(table, files, req) ==
    LET route == routeFind(table, req.path)
    IN IF ~route.found
       THEN MakeResponse(STATUS_NOT_FOUND,
                "<html><body>404 Route Not Found: " \o req.path \o "</body></html>",
                "text/html")
       ELSE IF ~MethodAllowed(route.second.allowedMethods, req.method)
       THEN MakeResponse(STATUS_METHOD_NOT_ALLOWED,
                "<html><body>405 Method Not Allowed: " \o req.method
                \o " not allowed for " \o req.path \o ". Allowed methods: "
                \o AllowedText(route.second.allowedMethods) \o "</body></html>",
                "text/html")
       ELSE IF route.second.isFile
       THEN LET file == files[route.second.content]
            IN IF ~ifstreamOpens(file)
               THEN MakeResponse(STATUS_NOT_FOUND,
                        "<html><body>404 Resource Not Found: " \o req.path
                        \o "</body></html>", "text/html")
               ELSE MakeResponse(STATUS_SUCCESS, ReadAll(file),
                        getContentType(route.second.content))
       ELSE MakeResponse(STATUS_SUCCESS, route.second.content,
                "text/html")

----------------------------------------------------------------------------
(* The environment: files and clients *)

\* What each file may be: some contents, empty, or not there.
FileContents(f) ==
    CASE f = "./templates/index.html"   -> {FileState(TRUE, "<h1>Hi</h1>\n"), NoFile}
      [] f = "./templates/test.html"    -> {FileState(TRUE, "cafÃ©\nau lait"),
                                            FileState(TRUE, ""), NoFile}
      [] f = "./static/img/favicon.jpg" -> {FileState(TRUE, "ÿØÿà"), NoFile}

InitialFiles == [f \in Files |-> FileState(TRUE,
    CASE f = "./templates/index.html"   -> "<h1>Hi</h1>\n"
      [] f = "./templates/test.html"    -> "cafÃ©\nau lait"
      [] f = "./static/img/favicon.jpg" -> "ÿØÿà")]

Methods == {"GET", "POST", "PUT", "get"}

RequestPaths ==
    DOMAIN InitialRoutes
    \cup {"/nope", "/test/get/", "/test/get?x=1", "/?", "/Test/get"}

\* The bytes a client may send before the server reads.
ClientData ==
    {m \o " " \o p \o " HTTP/1.1\r\n\r\n" : m \in Methods, p \in RequestPaths}
    \cup {"", "GET", "GET /", "\r\n", "  GET\t/test/get  ",
          "GET / HTTP/1.1\r\nHost: x\r\n\r\n",
          "GET / HTTP/1.1\r\nHost: x\r\nHost:y\r\n\r\n",
          "POST /test/post HTTP/1.1\r\nHost: x\r\n\r\nhi\nyou",
          "GET / HTTP/1.1\r\nA:\r\n\r\n",
          "GET / HTTP/1.1\r\nA:",
          "GET /nope HTTP/1.1\nA:\n\n",
          "GET /test/get HTTP/1.1\r\nUser-Agent: model-checker/1.0\r\n\r\n",
          "GET" \o VT \o "/ HTTP/1.1\r\n\r\n"}

----------------------------------------------------------------------------
(* HttpServer::run *)

\* The zero byte of the buffer: a cell no one-character string equals.
NUL == "\\0"

\* The buffer left as it is (used to mutate memset).
memsetOmitted(buf) == buf

\* memset(buffer, 0, sizeof(buffer))
memset(buf) == [i \in DOMAIN buf |-> NUL]

\* read(client_socket, buffer, sizeof(buffer) - 1) storing the first n
\* bytes of data.
readInto(buf, data, n) ==
    [i \in DOMAIN buf |-> IF i <= n THEN At(data, i) ELSE buf[i]]

\* std::string(const char*): the bytes before the first zero byte.
RECURSIVE CString(_, _)
CString(buf, i) ==
    IF i > Len(buf) \/ buf[i] = NUL THEN "" ELSE buf[i] \o CString(buf, i + 1)

NoRequest == Request("")

NoResponse == MakeResponse(0, "", "")

Idle == [fn |-> "none", text |-> "", resp |-> NoResponse, done |-> FALSE,
         out |-> "", req |-> NoRequest]

\* The descriptor accept() returns: the lowest free one.
ClientFds == {4}

Init ==
    /\ pc = "accept"
    /\ client_socket = 0
    /\ conn = "none"
    /\ buffer = [i \in 1..BufSize |-> NUL]
    /\ request = NoRequest
    /\ response = NoResponse
    /\ httpResponse = ""
    /\ routeLookUp = InitialRoutes
    /\ fs = InitialFiles
    /\ rd = ""
    /\ fileSeen = NoFile
    /\ sent = <<>>
    /\ steps = <<>>
    /\ stale = FALSE
    /\ probe = Idle

\* client_socket = accept(...): it fails and the loop continues, or it
\* returns a new connection.
Accept ==
    /\ pc = "accept"
    /\ \/ /\ client_socket' = -1
          /\ UNCHANGED <<pc, conn, rd, sent, steps, stale>>
       \/ /\ client_socket' \in ClientFds
          /\ conn' = "open"
          /\ rd' = ""
          /\ sent' = <<>>
          /\ steps' = <<>>
          /\ stale' = FALSE
          /\ pc' = "read"
    /\ UNCHANGED <<buffer, request, response, httpResponse, routeLookUp, fs,
                   fileSeen, probe>>

\* memset, then read: the client's bytes, at most sizeof(buffer) - 1 of
\* them, or nothing (read returns 0 or -1, which run() does not look at).
Read ==
    /\ pc = "read"
    /\ \/ \E data \in ClientData :
             LET n == Min(Len(data), Len(buffer) - 1)
             IN /\ buffer' = readInto(memset(buffer), data, n)
                /\ rd' = SubSeq(data, 1, n)
                /\ stale' = (Len(CString(buffer, 1)) > n)
       \/ /\ buffer' = memset(buffer)
          /\ rd' = ""
          /\ stale' = (Len(CString(buffer, 1)) > 0)
    /\ steps' = Append(steps, "read")
    /\ pc' = "parse"
    /\ UNCHANGED <<client_socket, conn, request, response, httpResponse,
                   routeLookUp, fs, fileSeen, sent, probe>>

\* Request request(buffer).  An exception leaving the constructor is
\* caught nowhere: std::terminate ends the process.
Parse ==
    /\ pc = "parse"
    /\ LET r == Request(CString(buffer, 1))
       IN IF r.threw
          THEN /\ pc' = "terminated"
               /\ UNCHANGED <<request, steps>>
          ELSE /\ pc' = "route"
               /\ request' = r
               /\ steps' = Append(steps, "parse")
    /\ UNCHANGED <<client_socket, conn, buffer, response, httpResponse,
                   routeLookUp, fs, rd, fileSeen, sent, stale, probe>>

\* Response response = requestHandler.handleRequest(request)
Route ==
    /\ pc = "route"
    /\ response' = handleRequest(routeLookUp, fs, request)
    /\ routeLookUp' = routeLookUpAfterFind(routeLookUp, request.path)
    /\ fileSeen' = IF request.path \in DOMAIN routeLookUp
                   THEN fs[routeLookUp[request.path].content]
                   ELSE NoFile
    /\ steps' = Append(steps, "route")
    /\ pc' = "serialize"
    /\ UNCHANGED <<client_socket, conn, buffer, request, httpResponse, fs, rd,
                   sent, stale, probe>>

\* std::string httpResponse = response.buildResponse()
Serialize ==
    /\ pc = "serialize"
    /\ httpResponse' = buildResponse(response)
    /\ steps' = Append(steps, "serialize")
    /\ pc' = "write"
    /\ UNCHANGED <<client_socket, conn, buffer, request, response, routeLookUp,
                   fs, rd, fileSeen, sent, stale, probe>>

\* write(client_socket, httpResponse.c_str(), httpResponse.size()).  run()
\* does not look at what write returns and no handler is set for SIGPIPE.
\* write sends the whole response; or it sends only some first bytes of
\* it; or it fails and sends nothing; or, the client having reset the
\* connection, it raises SIGPIPE, whose default action ends the process.
Write ==
    /\ pc = "write"
    /\ \/ /\ sent' = Append(sent, httpResponse)
          /\ steps' = Append(steps, "write")
          /\ pc' = "close"
       \/ /\ \E n \in 1..Min(MaxShortWrite, Len(httpResponse) - 1) :
                sent' = Append(sent, SubSeq(httpResponse, 1, n))
          /\ steps' = Append(steps, "write")
          /\ pc' = "close"
       \/ /\ steps' = Append(steps, "write")
          /\ pc' = "close"
          /\ UNCHANGED sent
       \/ /\ pc' = "terminated"
          /\ UNCHANGED <<sent, steps>>
    /\ UNCHANGED <<client_socket, conn, buffer, request, response,
                   httpResponse, routeLookUp, fs, rd, fileSeen, stale, probe>>

\* close(client_socket); the locals of the loop body go out of scope.
Close ==
    /\ pc = "close"
    /\ conn' = "closed"
    /\ request' = NoRequest
    /\ response' = NoResponse
    /\ httpResponse' = ""
    /\ fileSeen' = NoFile
    /\ steps' = Append(steps, "close")
    /\ pc' = "accept"
    /\ UNCHANGED <<client_socket, buffer, routeLookUp, fs, rd, sent, stale,
                   probe>>

\* The environment replaces, empties, removes or restores a file.
FsChange ==
    /\ pc # "terminated"
    /\ \E f \in Files : \E st \in FileContents(f) :
          /\ st # fs[f]
          /\ fs' = [fs EXCEPT ![f] = st]
    /\ UNCHANGED <<pc, client_socket, conn, buffer, request, response,
                   httpResponse, routeLookUp, rd, fileSeen, sent, steps, stale,
                   probe>>

Next ==
    \/ Accept
    \/ Read
    \/ Parse
    \/ Route
    \/ Serialize
    \/ Write
    \/ Close
    \/ FsChange

Spec == Init /\ [][Next]_vars
----------------------------------------------------------------------------
(* The functions on their own: an argument is chosen, the function applied *)

NameAlphabet == {".", "j", "s", "a"}

RECURSIVE NamesUpTo(_)
NamesUpTo(n) ==
    IF n = 0 THEN {""}
    ELSE LET shorter == NamesUpTo(n - 1)
         IN shorter \cup {s \o c : s \in shorter, c \in NameAlphabet}

FileNames ==
    NamesUpTo(MaxNameLen)
    \cup Files
    \cup {"a.b.html", "noext", "x.PNG", "x.png", "photo.jpg", "photo.jpeg",
          "style.css", "app.js", ".html", "a.html.", "a.htm", "dir.d/file",
          "index.HTML", "a.css.js"}

RECURSIVE Repeat(_, _)
Repeat(s, n) == IF n = 0 THEN "" ELSE s \o Repeat(s, n - 1)

Bodies ==
    {"", "ok", "0123456789", "caf" \o TwoByteChar,
     TwoByteChar \o TwoByteChar \o TwoByteChar, "\n\nline\n",
     "Content-Length: 7\n\n", Repeat("0123456789", 12)}

Responses ==
    {MakeResponse(c, b, t) :
        c \in {STATUS_SUCCESS, STATUS_NOT_FOUND, STATUS_METHOD_NOT_ALLOWED},
        b \in Bodies, t \in {"text/html", "image/png"}}

InitPure ==
    /\ pc = "accept"
    /\ client_socket = 0
    /\ conn = "none"
    /\ buffer = [i \in 1..BufSize |-> NUL]
    /\ request = NoRequest
    /\ response = NoResponse
    /\ httpResponse = ""
    /\ routeLookUp = InitialRoutes
    /\ fs = InitialFiles
    /\ rd = ""
    /\ fileSeen = NoFile
    /\ sent = <<>>
    /\ steps = <<>>
    /\ stale = FALSE
    /\ \/ \E name \in FileNames :
             probe = [Idle EXCEPT !.fn = "getContentType", !.text = name]
       \/ \E r \in Responses :
             probe = [Idle EXCEPT !.fn = "buildResponse", !.resp = r]
       \/ \E raw \in ClientData :
             probe = [Idle EXCEPT !.fn = "Request", !.text = raw]

mainVars == <<pc, client_socket, conn, buffer, request, response,
              httpResponse, routeLookUp, fs, rd, fileSeen, sent, steps, stale>>

ApplyGetContentType ==
    /\ probe.fn = "getContentType" /\ ~probe.done
    /\ probe' = [probe EXCEPT !.done = TRUE, !.out = getContentType(probe.text)]
    /\ UNCHANGED mainVars

ApplyBuildResponse ==
    /\ probe.fn = "buildResponse" /\ ~probe.done
    /\ probe' = [probe EXCEPT !.done = TRUE, !.out = buildResponse(probe.resp)]
    /\ UNCHANGED mainVars

ApplyRequest ==
    /\ probe.fn = "Request" /\ ~probe.done
    /\ probe' = [probe EXCEPT !.done = TRUE, !.req = Request(probe.text)]
    /\ UNCHANGED mainVars

NextPure ==
    \/ ApplyGetContentType
    \/ ApplyBuildResponse
    \/ ApplyRequest

SpecPure == InitPure /\ [][NextPure]_vars

----------------------------------------------------------------------------
(* Reading a response back *)

\* The first position >= from at which pat occurs in s, or NPOS.
RECURSIVE FindSub(_, _, _)
FindSub(s, pat, from) ==
    IF from + Len(pat) - 1 > Len(s) THEN NPOS
    ELSE IF SubSeq(s, from, from + Len(pat) - 1) = pat THEN from
    ELSE FindSub(s, pat, from + 1)

DigitValue(c) == CHOOSE d \in 0..9 : Digit(d) = c

RECURSIVE FromDecimal(_)
FromDecimal(digits) ==
    IF Len(digits) = 1 THEN DigitValue(digits)
    ELSE 10 * FromDecimal(SubSeq(digits, 1, Len(digits) - 1))
         + DigitValue(At(digits, Len(digits)))

\* The first line of a serialized response.
StatusLine(out) == SubSeq(out, 1, find(out, "\n", 1) - 1)

\* What follows the first blank line of a serialized response.
BodyOf(out) == SubSeq(out, FindSub(out, "\n\n", 1) + 2, Len(out))

\* The text between "Content-Length: " and the end of its line.
ContentLengthOf(out) ==
    LET start == FindSub(out, "Content-Length: ", 1) + Len("Content-Length: ")
    IN SubSeq(out, start, find(out, "\n", start) - 1)

\* The words of s from pos on, split at white space.
RECURSIVE WordsFrom(_, _)
WordsFrom(s, pos) ==
    LET w == Extract(s, pos)
    IN IF w.word = "" THEN <<>> ELSE <<w.word>> \o WordsFrom(s, w.next)

\* The methods a 405 body lists: the words between "Allowed methods: " and
\* the closing tags.  A method and a path hold no space, so the first
\* "Allowed methods: " of the body is the one the handler wrote.
ListedMethods(body) ==
    LET start == FindSub(body, "Allowed methods: ", 1) + Len("Allowed methods: ")
        stop  == Len(body) - Len("</body></html>")
    IN WordsFrom(SubSeq(body, start, stop), 1)

\* handleRequest has returned and its request and response are in scope.
AfterRoute == pc \in {"serialize", "write", "close"}

Registered == AfterRoute /\ request.path \in DOMAIN routeLookUp

Route_ == routeLookUp[request.path]

Allowed == \E i \in 1..Len(Route_.allowedMethods) :
               Route_.allowedMethods[i] = request.method

RoutedContent ==
    IF Route_.isFile THEN fileSeen.data ELSE Route_.content

\* The routed file could not be opened when handleRequest ran; request
\* and response stay as they were when the process ends in write.
MissingFile ==
    /\ pc \in {"serialize", "write", "close", "terminated"}
    /\ request.path \in DOMAIN routeLookUp
    /\ Allowed
    /\ Route_.isFile
    /\ ~fileSeen.exists

----------------------------------------------------------------------------
(* Properties *)

\* C1: a request for a registered path with a method that is not among the
\* route's allowedMethods is answered 405, and the body lists exactly the
\* route's allowed methods, separated by spaces, in their declared order.
C1_DisallowedMethodIs405 ==
    (Registered /\ ~Allowed) =>
        /\ response.code = 405
        /\ ListedMethods(response.body) = Route_.allowedMethods

C1_Witness ==
    /\ Registered
    /\ request.path = "/test/post-get"
    /\ request.method = "PUT"
    /\ response.code = 405
    /\ ListedMethods(response.body) = <<"GET", "POST">>

\* C2 as stated: a request for a registered path with an allowed method is
\* answered 200 with the contents of the route's file (or its literal
\* content) as the body.
C2_AllowedMethodIs200 ==
    (Registered /\ Allowed) =>
        /\ response.code = 200
        /\ response.body = RoutedContent

\* C2 as amended: the same, for a route whose file can be opened when the
\* request is handled (or whose content is a literal).
C2_AllowedMethodIs200WhenFileOpens ==
    (Registered /\ Allowed /\ (Route_.isFile => fileSeen.exists)) =>
        /\ response.code = 200
        /\ response.body = RoutedContent

C2_Witness ==
    /\ Registered
    /\ request.path = "/test/post-get"
    /\ request.method = "POST"
    /\ fileSeen = FileState(TRUE, "caf" \o TwoByteChar \o "\nau lait")
    /\ response.code = 200
    /\ response.body = "caf" \o TwoByteChar \o "\nau lait"

\* C3: a request whose path is not exactly a key of the route table is
\* answered 404, whatever its method: a trailing slash, a query string or
\* an empty path make a different path.
C3_UnknownPathIs404 ==
    (AfterRoute /\ request.path \notin DOMAIN routeLookUp) =>
        response.code = 404

C3_Witness ==
    /\ AfterRoute
    /\ request.path = "/test/get/"
    /\ request.method = "GET"
    /\ response.code = 404

\* C4: when the file of a route cannot be opened, an allowed request gets
\* a Response with code 404 and content type text/html, and run() goes on
\* to serialize it, write it and close the connection, so as to accept
\* the next one: it does not stop, and what it has written when it closes
\* is that response.
C4_MissingFileIs404 ==
    MissingFile =>
        /\ response.code = 404
        /\ response.contentType = "text/html"
        /\ pc # "terminated"
        /\ pc = "close" => sent = <<httpResponse>>

\* C5: constructing a Request never fails, whatever the bytes: a header
\* line that ends with its colon included.
C5_RequestNeverFails ==
    (probe.fn = "Request" /\ probe.done) => ~probe.req.threw

ClaimedStatusLine(code) ==
    CASE code = 200 -> "HTTP/1.1 200 OK"
      [] code = 404 -> "HTTP/1.1 404 Not Found"
      [] code = 405 -> "HTTP/1.1 405 Method Not Allowed"

\* bytes are the first bytes of a response with one of the three status
\* lines (write may have sent the response only in part).
StartsWithClaimedStatusLine(bytes) ==
    \E c \in {200, 404, 405} :
        LET line == ClaimedStatusLine(c) \o "\n"
        IN IF Len(line) <= Len(bytes)
           THEN SubSeq(bytes, 1, Len(line)) = line
           ELSE bytes = SubSeq(line, 1, Len(bytes))

\* C6: every response the server writes has code 200, 404 or 405 and the
\* status line "HTTP/1.1 <code> <reason>" with the reason of that code; no
\* byte of another status line reaches a client.
C6_StatusLineMatchesCode ==
    /\ \A i \in 1..Len(sent) : StartsWithClaimedStatusLine(sent[i])
    /\ pc \in {"write", "close"} =>
          /\ response.code \in {200, 404, 405}
          /\ StatusLine(httpResponse) = ClaimedStatusLine(response.code)

C6_Witness ==
    /\ pc = "close"
    /\ response.code = 405
    /\ sent = <<httpResponse>>
    /\ StatusLine(sent[1]) = "HTTP/1.1 405 Method Not Allowed"

\* C7: in the output of buildResponse the number after "Content-Length: "
\* is the number of bytes that follow the blank line, and those bytes are
\* the body.
C7_ContentLengthIsBodyLength ==
    (probe.fn = "buildResponse" /\ probe.done) =>
        /\ BodyOf(probe.out) = probe.resp.body
        /\ FromDecimal(ContentLengthOf(probe.out)) = Len(BodyOf(probe.out))

C7_Witness ==
    /\ probe.fn = "buildResponse" /\ probe.done
    /\ probe.resp.body = "caf" \o TwoByteChar
    /\ FromDecimal(ContentLengthOf(probe.out)) = Len("caf") + Len(TwoByteChar)

\* The suffix of name that starts at its last ".", if it has one.
FinalExtensions(name) ==
    {SubSeq(name, i, Len(name)) :
        i \in {j \in 1..Len(name) :
                 /\ At(name, j) = "."
                 /\ \A k \in (j + 1)..Len(name) : At(name, k) # "."}}

ClaimedTypes ==
    (".html" :> "text/html") @@ (".jpg" :> "image/jpeg")
    @@ (".jpeg" :> "image/jpeg") @@ (".png" :> "image/png")
    @@ (".css" :> "text/css") @@ (".js" :> "application/javascript")

\* C8: getContentType(name) is the table's type of the part of name from
\* its last "." on when that part is, letter case included, one of the
\* table's extensions, and application/octet-stream in every other case.
C8_ContentTypeOfFinalExtension ==
    (probe.fn = "getContentType" /\ probe.done) =>
        LET known == FinalExtensions(probe.text) \cap DOMAIN ClaimedTypes
        IN IF known = {}
           THEN probe.out = "application/octet-stream"
           ELSE \A e \in known : probe.out = ClaimedTypes[e]

C8_Witness ==
    /\ probe.fn = "getContentType" /\ probe.done
    /\ probe.text = "a.b.html"
    /\ probe.out = "text/html"

IsPrefix(s, t) == Len(s) <= Len(t) /\ s = SubSeq(t, 1, Len(s))

\* C9: an accepted connection is read, parsed, routed, serialized, written
\* and closed in that order, gets exactly one response, and is closed
\* before the next accept; run() never stops in between.
C9_EveryConnectionServedInOrder ==
    /\ IsPrefix(steps, <<"read", "parse", "route", "serialize", "write", "close">>)
    /\ conn = "open" =>
          /\ pc \in {"read", "parse", "route", "serialize", "write", "close"}
          /\ sent = (IF pc = "close" THEN <<httpResponse>> ELSE <<>>)
    /\ pc = "accept" =>
          /\ conn # "open"
          /\ conn = "closed" =>
                /\ Len(sent) = 1
                /\ steps = <<"read", "parse", "route", "serialize", "write", "close">>

\* The buffer holding data and nothing else.
Padded(data) ==
    [i \in 1..BufSize |-> IF i <= Len(data) THEN At(data, i) ELSE NUL]

\* C10: handling a request leaves the route table as it was, the buffer
\* holds after each read the bytes of that read and zeros, and the
\* response is the one these bytes and the files of that moment give.
C10_NoStateAcrossConnections ==
    [][/\ routeLookUp' = routeLookUp
       /\ (pc = "read" /\ pc' = "parse") => buffer' = Padded(rd')
       /\ (pc = "route" /\ pc' = "serialize") =>
             response' = handleRequest(InitialRoutes, fs, Request(rd))]_vars

C10_Witness ==
    /\ pc = "serialize"
    /\ stale
    /\ rd = "GET /"
    /\ response.code = 200
    /\ routeLookUp = InitialRoutes

============================================================================
